---- MODULE Spec2Model ----
(***************************************************************************)
(* Payment / subscription reconciliation core of the private-channel      *)
(* seller bot.  The store is a relational database at read-committed      *)
(* isolation: a statement inside an interactive transaction sees the      *)
(* committed rows, an UPDATE holds its row lock until COMMIT and a        *)
(* blocked UPDATE proceeds on the row as committed by the lock holder.    *)
(* Every await of a handler is a suspension point, so each action below   *)
(* is one awaited statement of one handler invocation (a task).           *)
(*                                                                         *)
(* Time is counted in ticks of 30 minutes; amounts in thousandths of the  *)
(* asset's display unit.                                                   *)
(***************************************************************************)
EXTENDS Integers, Sequences, FiniteSets, TLC

\* ------------------------------------------------------------------ bounds
MaxTime == 3
\* transfers that the ledger scan credits during one life of the process
MaxTxs == 1001

\* ----------------------------------------------------------- fixed domains
Users == {"u1", "u2"}
Tasks == {"t1", "t2"}
CHANNEL_ID == "channel"
CRYPTO_WALLET_ADDRESS == "wallet"
None == "none"

VARIABLES
    now,            \* the wall clock read by every `new Date()`
    payments,       \* table payments: id -> row
    subs,           \* table subscriptions: sequence of rows, id = index
    tasks,          \* handler invocations: locals and position of each
    processedTxs    \* CryptoMonitor.processedTxs

vars == <<now, payments, subs, tasks, processedTxs>>

\* ---------------------------------------------------------- plan catalogue
\* 24 h, 7 * 24 h and 30 * 24 h, in ticks of 30 minutes
getPlanDuration(planType) ==
    CASE planType = "DAY" -> 48
      [] planType = "WEEK" -> 336
      [] planType = "MONTH" -> 1440

\* prices of the ledger-scanning revision in TRX, in thousandths
getPlanPricesTrx(planType) ==
    CASE planType = "DAY" -> 10000
      [] planType = "WEEK" -> 60000
      [] planType = "MONTH" -> 200000

\* ------------------------------------------------------------ payment rows
NewPayment(userId, planType, paymentType, created, ttl) ==
    [ userId |-> userId,
      planType |-> planType,
      paymentType |-> paymentType,
      status |-> "PENDING",
      invoicePayload |-> None,
      telegramPaymentChargeId |-> None,
      cryptoAddress |-> None,
      cryptoTxHash |-> None,
      expectedAmount |-> 0,
      expiresAt |-> created + ttl,
      createdAt |-> created ]

\* PaymentService.createTelegramStarsPayment: expires after 30 minutes
StarsPayment(id, userId, planType, created) ==
    [ NewPayment(userId, planType, "TELEGRAM_STARS", created, 1)
        EXCEPT !.invoicePayload = "payload_" \o id ]

\* PaymentService.createCryptoPayment (hosted invoice, polled): the
\* provider's payment_id is stored in cryptoTxHash; expires after 1 hour
PolledPayment(id, userId, planType, created) ==
    [ NewPayment(userId, planType, "CRYPTO_USDT", created, 2)
        EXCEPT !.cryptoAddress = "addr_" \o id,
               !.cryptoTxHash = "np_" \o id,
               !.expectedAmount = 21000 ]

\* PaymentService.createCryptoPayment (ledger scanning): every payment uses
\* the one wallet address
LedgerPayment(id, userId, planType, created) ==
    [ NewPayment(userId, planType, "CRYPTO_TRX", created, 2)
        EXCEPT !.cryptoAddress = CRYPTO_WALLET_ADDRESS,
               !.expectedAmount = getPlanPricesTrx(planType) ]

\* NowPaymentsIntegration.createCryptoPayment (hosted invoice, webhook):
\* the provider's payment id is stored in invoicePayload
WebhookPayment(id, userId, planType, created) ==
    [ NewPayment(userId, planType, "CRYPTO_USDT", created, 2)
        EXCEPT !.cryptoAddress = "addr_" \o id,
               !.invoicePayload = "np_" \o id,
               !.expectedAmount = 500 ]

\* the snapshot held by a task that has not read a payment
NoPayment == NewPayment(None, "DAY", None, 0, 0)

\* ------------------------------------------------------- subscription rows
SubscriptionRow(userId, planType, startDate, endDate, paymentId) ==
    [ userId |-> userId,
      channelId |-> CHANNEL_ID,
      planType |-> planType,
      startDate |-> startDate,
      endDate |-> endDate,
      isActive |-> TRUE,
      paymentId |-> paymentId ]

\* where: userId, channelId, isActive = true, endDate >= now
IsActiveFor(row, userId, at) ==
    /\ row.userId = userId
    /\ row.channelId = CHANNEL_ID
    /\ row.isActive
    /\ row.endDate >= at

ActiveIds(userId, at) ==
    { i \in DOMAIN subs : IsActiveFor(subs[i], userId, at) }

\* findFirst without the orderBy: any active row can come first
AnyActive(userId, at) == ActiveIds(userId, at)

\* findFirst ... orderBy endDate desc: the candidates with the latest endDate
LatestActive(userId, at) ==
    { i \in ActiveIds(userId, at) :
        \A j \in ActiveIds(userId, at) : subs[j].endDate <= subs[i].endDate }

\* ------------------------------------------------------------------- tasks
IdleTask ==
    [ pc |-> "idle",
      kind |-> None,
      pid |-> None,          \* id of the payment row read
      row |-> NoPayment,     \* the `payment` object held by the handler
      ext |-> None,          \* external reference carried by the event
      sel |-> None,          \* id of the payment the caller names
      sig |-> None,          \* whether the signature header is the HMAC
      status |-> None,       \* provider status carried by the event
      amount |-> 0,          \* amount carried by the event
      unban |-> None,        \* outcome of bot.unbanChatMember
      exId |-> 0,            \* existingSubscription.id, 0 when null
      exEnd |-> 0,           \* existingSubscription.endDate
      at |-> 0,              \* `new Date()` of the create branch
      committed |-> FALSE,
      res |-> None,
      notified |-> None,     \* outcome of the service's own notification
      notice |-> None ]      \* what the bot handler has told the user

InTx(t) == tasks[t].pc \in {"tx_find", "tx_write", "tx_commit"}

\* row locks held by the open transactions
PaymentLocked(pid, t) ==
    \E o \in Tasks \ {t} : InTx(o) /\ tasks[o].pid = pid

SubLocked(id, t) ==
    \E o \in Tasks \ {t} : tasks[o].pc = "tx_commit" /\ tasks[o].exId = id

Finish(t, res) ==
    tasks' = [tasks EXCEPT ![t].pc = "done", ![t].res = res]

\* what the handler's caller sees when the transaction throws
Thrown(kind) == IF kind = "webhook" THEN "false" ELSE "throw"

\* ------------------------------------------- the completion transaction
\* data of tx.payment.update, by entry point
CompletedRow(row, kind, ext) ==
    CASE kind = "stars" ->
            [row EXCEPT !.status = "COMPLETED", !.telegramPaymentChargeId = ext]
      [] kind = "poll" ->
            [row EXCEPT !.status = "COMPLETED"]
      [] OTHER ->
            [row EXCEPT !.status = "COMPLETED", !.cryptoTxHash = ext]

\* the unique indexes of table payments that the update can violate
UniqueConflict(kind, ext, pid) ==
    \E q \in DOMAIN payments \ {pid} :
        CASE kind = "stars" -> payments[q].telegramPaymentChargeId = ext
          [] kind = "poll" -> FALSE
          [] OTHER -> payments[q].cryptoTxHash = ext

\* an open transaction holds the same key on another row: the update waits
UniquePending(t) ==
    \E o \in Tasks \ {t} :
        /\ InTx(o)
        /\ tasks[o].pid # tasks[t].pid
        /\ tasks[o].kind # "poll"
        /\ tasks[t].kind # "poll"
        /\ (tasks[o].kind = "stars") = (tasks[t].kind = "stars")
        /\ tasks[o].ext = tasks[t].ext

\* tx.payment.update({ where: { id: payment.id }, data: { status: COMPLETED, ... } })
TxUpdatePayment(t) ==
    /\ tasks[t].pc = "tx_pay"
    /\ ~PaymentLocked(tasks[t].pid, t)
    /\ ~UniquePending(t)
    /\ IF UniqueConflict(tasks[t].kind, tasks[t].ext, tasks[t].pid)
       THEN Finish(t, Thrown(tasks[t].kind))
       ELSE tasks' = [tasks EXCEPT ![t].pc = "tx_find"]
    /\ UNCHANGED <<now, payments, subs, processedTxs>>

\* createSubscription of the ledger-scanning PaymentService begins with
\* bot.unbanChatMember, not caught: a rejection leaves the callback of
\* $transaction, which rolls back
unbanChatMember(t, ok) ==
    /\ tasks[t].pc = "tx_find"
    /\ tasks[t].unban = None
    /\ tasks' = [tasks EXCEPT ![t] =
                    IF ok
                    THEN [tasks[t] EXCEPT !.unban = "ok"]
                    ELSE [tasks[t] EXCEPT !.unban = "failed", !.pc = "done",
                                          !.res = Thrown(tasks[t].kind)]]
    /\ UNCHANGED <<now, payments, subs, processedTxs>>

\* createSubscription of the polling PaymentService begins with
\* bot.unbanChatMember inside try/catch: a rejection is logged and the
\* callback goes on
unbanChatMember_caught(t, ok) ==
    /\ tasks[t].pc = "tx_find"
    /\ tasks[t].unban = None
    /\ tasks' = [tasks EXCEPT ![t].unban = IF ok THEN "ok" ELSE "failed"]
    /\ UNCHANGED <<now, payments, subs, processedTxs>>

\* createSubscription: tx.subscription.findFirst
createSubscription_findFirst(t) ==
    /\ tasks[t].pc = "tx_find"
    /\ LET found == LatestActive(tasks[t].row.userId, now) IN
       IF found = {}
       THEN tasks' = [tasks EXCEPT ![t].pc = "tx_write", ![t].exId = 0]
       ELSE \E i \in found :
               tasks' = [tasks EXCEPT ![t].pc = "tx_write",
                                      ![t].exId = i,
                                      ![t].exEnd = subs[i].endDate]
    /\ UNCHANGED <<now, payments, subs, processedTxs>>

\* the extension counted from the clock instead of the current end
ExtendedRowFromNow(row, existingEnd, planType) ==
    [row EXCEPT !.endDate = now + getPlanDuration(planType),
                !.planType = planType]

\* extension branch: endDate = existingSubscription.endDate + duration
ExtendedRow(row, existingEnd, planType) ==
    [row EXCEPT !.endDate = existingEnd + getPlanDuration(planType),
                !.planType = planType]

\* the fresh window counted from the payment's creation
CreatedRowFromCreatedAt(payment, pid, at) ==
    SubscriptionRow(payment.userId, payment.planType, payment.createdAt,
                    payment.createdAt + getPlanDuration(payment.planType), pid)

\* fresh branch: startDate = new Date(), endDate = startDate + duration
CreatedRow(payment, pid, at) ==
    SubscriptionRow(payment.userId, payment.planType, at,
                    at + getPlanDuration(payment.planType), pid)

\* createSubscription: tx.subscription.update / tx.subscription.create
createSubscription_write(t) ==
    /\ tasks[t].pc = "tx_write"
    /\ IF tasks[t].exId # 0
       THEN /\ ~SubLocked(tasks[t].exId, t)
            /\ tasks' = [tasks EXCEPT ![t].pc = "tx_commit"]
       ELSE IF \E i \in DOMAIN subs : subs[i].paymentId = tasks[t].pid
            THEN Finish(t, Thrown(tasks[t].kind))
            ELSE tasks' = [tasks EXCEPT ![t].pc = "tx_commit", ![t].at = now]
    /\ UNCHANGED <<now, payments, subs, processedTxs>>

\* the extension also pointing the row at the new payment
TxCommit_rebinds(t) ==
    /\ tasks[t].pc = "tx_commit"
    /\ payments' = [payments EXCEPT ![tasks[t].pid] =
                        CompletedRow(@, tasks[t].kind, tasks[t].ext)]
    /\ subs' = IF tasks[t].exId # 0
               THEN [subs EXCEPT ![tasks[t].exId] =
                        [ExtendedRow(@, tasks[t].exEnd, tasks[t].row.planType)
                            EXCEPT !.paymentId = tasks[t].pid]]
               ELSE Append(subs, CreatedRow(tasks[t].row, tasks[t].pid, tasks[t].at))
    /\ tasks' = [tasks EXCEPT ![t].pc = IF tasks[t].kind = "ledger"
                                        THEN "lg_ret" ELSE "done",
                              ![t].committed = TRUE,
                              ![t].res = "ok"]
    /\ UNCHANGED <<now, processedTxs>>

\* the callback of prisma.$transaction returns: COMMIT
TxCommit(t) ==
    /\ tasks[t].pc = "tx_commit"
    /\ payments' = [payments EXCEPT ![tasks[t].pid] =
                        CompletedRow(@, tasks[t].kind, tasks[t].ext)]
    /\ subs' = IF tasks[t].exId # 0
               THEN [subs EXCEPT ![tasks[t].exId] =
                        ExtendedRow(@, tasks[t].exEnd, tasks[t].row.planType)]
               ELSE Append(subs, CreatedRow(tasks[t].row, tasks[t].pid, tasks[t].at))
    /\ tasks' = [tasks EXCEPT ![t].pc = IF tasks[t].kind = "ledger"
                                        THEN "lg_ret" ELSE "done",
                              ![t].committed = TRUE,
                              ![t].res = "ok"]
    /\ UNCHANGED <<now, processedTxs>>

\* ------------------------------------------------- in-app currency (stars)
\* the status test left out: any payment found is accepted
StarsAcceptsFound(row) == row.status # None

\* line 228: the handler goes on only with a PENDING payment
StarsAccepts(row) == row.status = "PENDING"

handleTelegramStarsSuccess(t, p) ==
    /\ tasks[t].pc = "idle"
    /\ p \in DOMAIN payments
    /\ payments[p].paymentType = "TELEGRAM_STARS"
    /\ LET read == [IdleTask EXCEPT !.kind = "stars", !.pid = p,
                                     !.row = payments[p],
                                     !.ext = "charge_" \o p] IN
       tasks' = [tasks EXCEPT ![t] =
                    IF StarsAccepts(payments[p])
                    THEN [read EXCEPT !.pc = "tx_pay"]
                    ELSE [read EXCEPT !.pc = "done", !.res = "throw"]]
    /\ UNCHANGED <<now, payments, subs, processedTxs>>

\* ---------------------------------------------- stars: the pre-checkout
Checkout == "checkout"

IdleCheckout ==
    [ approved |-> {},       \* payments whose pre_checkout_query was answered true
      declined |-> {} ]      \* payments whose pre_checkout_query was answered false

\* bot.on("pre_checkout_query"): findUnique by invoicePayload, then
\* answerPreCheckoutQuery(false) when the payment is missing or expired and
\* answerPreCheckoutQuery(true) otherwise; the status is not read
pre_checkout_query(p) ==
    /\ p \in DOMAIN payments => payments[p].paymentType = "TELEGRAM_STARS"
    /\ tasks' = [tasks EXCEPT ![Checkout] =
            IF p \notin DOMAIN payments \/ payments[p].expiresAt < now
            THEN [@ EXCEPT !.declined = @ \cup {p}]
            ELSE [@ EXCEPT !.approved = @ \cup {p}]]
    /\ UNCHANGED <<now, payments, subs, processedTxs>>

\* bot.on("successful_payment"): the platform delivers it for an invoice
\* whose pre-checkout was approved
successful_payment(t, p) ==
    /\ p \in tasks[Checkout].approved
    /\ handleTelegramStarsSuccess(t, p)

\* ------------------------------------------------ hosted invoice, polled
ProviderStatuses ==
    {"waiting", "confirming", "confirmed", "sending", "partially_paid",
     "finished", "failed", "refunded", "expired"}

\* payment_status is a string of the response body: the provider can send a
\* value that the union above does not list
UnknownStatus == "unlisted"

EventStatuses == ProviderStatuses \cup {UnknownStatus}

\* prisma.payment.findUnique({ where: { cryptoTxHash: paymentId } })
checkCryptoPaymentStatus_find(t, p) ==
    /\ tasks[t].pc = "idle"
    /\ p \in DOMAIN payments
    /\ payments[p].paymentType = "CRYPTO_USDT"
    /\ payments[p].cryptoTxHash # None
    /\ tasks' = [tasks EXCEPT ![t] =
                    [IdleTask EXCEPT !.kind = "poll", !.pid = p,
                                     !.row = payments[p],
                                     !.ext = payments[p].cryptoTxHash,
                                     !.pc = "poll_status"]]
    /\ UNCHANGED <<now, payments, subs, processedTxs>>

\* 'confirmed' taken for 'finished'
PollBranchConfirmed(status, row) ==
    IF status \in {"finished", "confirmed"} /\ row.status = "PENDING" THEN "complete"
    ELSE IF status \in {"failed", "refunded", "expired"} /\ row.status = "PENDING"
         THEN "fail"
         ELSE "none"

\* the branch taken on the provider's answer and the payment as read
PollBranch(status, row) ==
    IF status = "finished" /\ row.status = "PENDING" THEN "complete"
    ELSE IF status \in {"failed", "refunded", "expired"} /\ row.status = "PENDING"
         THEN "fail"
         ELSE "none"

\* the pay_amount the provider can report for a polled payment
PollAmounts == {21000, 21020}

\* the where clause of findMany in CryptoMonitor.checkPendingPayments (the
\* sweep of the polling revision)
SweepSelects(row, at) ==
    /\ row.status = "PENDING"
    /\ row.paymentType = "CRYPTO_USDT"
    /\ row.expiresAt >= at
    /\ row.cryptoTxHash # None

\* a provider error taken for a terminal failure
checkCryptoPaymentStatus_statusErrorFails(t, status, pay_amount, ok) ==
    /\ tasks[t].pc = "poll_status"
    /\ IF ~ok
       THEN tasks' = [tasks EXCEPT ![t].pc = "poll_fail"]
       ELSE LET got == [tasks[t] EXCEPT !.status = status,
                                        !.amount = pay_amount] IN
            tasks' = [tasks EXCEPT ![t] =
                CASE PollBranch(status, tasks[t].row) = "complete" ->
                        [got EXCEPT !.pc = "tx_pay"]
                  [] PollBranch(status, tasks[t].row) = "fail" ->
                        [got EXCEPT !.pc = "poll_fail"]
                  [] OTHER ->
                        [got EXCEPT !.pc = "done", !.res = "unchanged"]]
    /\ UNCHANGED <<now, payments, subs, processedTxs>>

\* nowPayments.getPaymentStatus returns the provider's payment (status and
\* amount), or throws
checkCryptoPaymentStatus_status(t, status, pay_amount, ok) ==
    /\ tasks[t].pc = "poll_status"
    /\ IF ~ok
       THEN Finish(t, "throw")
       ELSE LET got == [tasks[t] EXCEPT !.status = status,
                                        !.amount = pay_amount] IN
            tasks' = [tasks EXCEPT ![t] =
                CASE PollBranch(status, tasks[t].row) = "complete" ->
                        [got EXCEPT !.pc = "tx_pay"]
                  [] PollBranch(status, tasks[t].row) = "fail" ->
                        [got EXCEPT !.pc = "poll_fail"]
                  [] OTHER ->
                        [got EXCEPT !.pc = "done", !.res = "unchanged"]]
    /\ UNCHANGED <<now, payments, subs, processedTxs>>

\* the failed payment written as EXPIRED
checkCryptoPaymentStatus_failAsExpired(t) ==
    /\ tasks[t].pc = "poll_fail"
    /\ ~PaymentLocked(tasks[t].pid, t)
    /\ payments' = [payments EXCEPT ![tasks[t].pid].status = "EXPIRED"]
    /\ Finish(t, "ok")
    /\ UNCHANGED <<now, subs, processedTxs>>

\* prisma.payment.update({ where: { id }, data: { status: FAILED } })
checkCryptoPaymentStatus_fail(t) ==
    /\ tasks[t].pc = "poll_fail"
    /\ ~PaymentLocked(tasks[t].pid, t)
    /\ payments' = [payments EXCEPT ![tasks[t].pid].status = "FAILED"]
    /\ Finish(t, "ok")
    /\ UNCHANGED <<now, subs, processedTxs>>

\* ------------------------------------------------------- expiry of payments
\* the comparison widened to the payments that expire at this very instant
ExpiredPendingAtOrBefore(row, at) == row.status = "PENDING" /\ row.expiresAt <= at

\* where: { status: PENDING, expiresAt: { lt: new Date() } }
ExpiredPending(row, at) == row.status = "PENDING" /\ row.expiresAt < at

\* prisma.payment.updateMany; the statement waits for rows locked by an
\* open transaction
cleanupExpiredPayments ==
    /\ \A p \in DOMAIN payments :
          ExpiredPending(payments[p], now) => ~PaymentLocked(p, None)
    /\ payments' = [p \in DOMAIN payments |->
                        IF ExpiredPending(payments[p], now)
                        THEN [payments[p] EXCEPT !.status = "EXPIRED"]
                        ELSE payments[p]]
    /\ UNCHANGED <<now, subs, tasks, processedTxs>>

\* ------------------------------------------------------------------- clock
Tick ==
    /\ now < MaxTime
    /\ now' = now + 1
    /\ UNCHANGED <<payments, subs, tasks, processedTxs>>

\* ------------------------------------------------ hosted invoice, webhook
\* HMAC of the payload under the IPN secret
Hmac(order_id, payment_status, pay_amount) ==
    "hmac_" \o order_id \o "_" \o payment_status \o "_" \o ToString(pay_amount)

\* the comparison left out: any signature header is accepted
verifyWebhookPresent(signature, order_id, payment_status, pay_amount) ==
    signature # None

\* NowPaymentsService.verifyWebhook
verifyWebhook(signature, order_id, payment_status, pay_amount) ==
    signature = Hmac(order_id, payment_status, pay_amount)

\* the pay_amount a webhook payload can carry
WebhookAmounts == {500, 520}

\* handleWebhook(signature, payload) up to the result of
\* prisma.payment.findUnique
handleWebhook(t, signature, order_id, payment_status, pay_amount) ==
    /\ tasks[t].pc = "idle"
    /\ LET parsed == [IdleTask EXCEPT
                        !.kind = "webhook",
                        !.sig = IF signature = Hmac(order_id, payment_status, pay_amount)
                                THEN "hmac" ELSE "forged",
                        !.sel = order_id,
                        !.status = payment_status,
                        !.amount = pay_amount] IN
       tasks' = [tasks EXCEPT ![t] =
            IF ~verifyWebhook(signature, order_id, payment_status, pay_amount)
            THEN [parsed EXCEPT !.pc = "done", !.res = "false"]
            ELSE IF payment_status # "finished"
            THEN [parsed EXCEPT !.pc = "done", !.res = "false"]
            ELSE IF order_id \notin DOMAIN payments
            THEN [parsed EXCEPT !.pc = "done", !.res = "false"]
            ELSE [parsed EXCEPT !.pc = "tx_pay", !.pid = order_id,
                                !.row = payments[order_id],
                                !.ext = "np_" \o order_id]]
    /\ UNCHANGED <<now, payments, subs, processedTxs>>

\* the status code the route /webhooks/nowpayments answers with, given what
\* handleWebhook returned; handleWebhook catches every error itself, so the
\* route's own catch block (500) is entered only if handleWebhook throws
setupNowPaymentsWebhook(res) ==
    CASE res = "ok" -> 200
      [] res = "false" -> 400
      [] OTHER -> 500

\* ------------------------------------------------------------ ledger scan
\* the transactions of the wallet address as the node reports them
Transfer(amount, block_timestamp) ==
    [ to |-> CRYPTO_WALLET_ADDRESS, amount |-> amount,
      block_timestamp |-> block_timestamp, contractRet |-> "SUCCESS" ]

Chain ==
    ("h1" :> Transfer(10000, 0)) @@
    ("h2" :> Transfer(10005, 0)) @@
    ("h3" :> Transfer(10009, 0)) @@
    ("h4" :> Transfer(9991, 0)) @@
    ("h5" :> Transfer(10020, 0)) @@
    ("h6" :> Transfer(9980, 0)) @@
    ("h7" :> Transfer(10000, -1))

\* getTransactionsFromAddress returns the three latest transactions of the
\* address at each call; the ids that the sweeps of a run are handed
RecentTxs == {"h1", "h2", "h7"}
ToleranceTxs == {"h1", "h3", "h4", "h5", "h6"}

Abs(x) == IF x < 0 THEN -x ELSE x

\* CryptoMonitor.isValidTRXTransaction; 0.01 is 10 thousandths
isValidTRXTransaction(tx, payment) ==
    /\ tx.to = payment.cryptoAddress
    /\ Abs(tx.amount - payment.expectedAmount) < 10
    /\ tx.block_timestamp >= payment.createdAt

\* the status test left out of the where clause
MatchesTRXAnyStatus(row, tx, at) ==
    /\ row.cryptoAddress = tx.to
    /\ row.paymentType = "CRYPTO_TRX"
    /\ row.expiresAt >= at
    /\ row.expectedAmount >= tx.amount - 10
    /\ row.expectedAmount <= tx.amount + 10

\* the where clause of findFirst in PaymentService.handleTRXTransaction
MatchesTRX(row, tx, at) ==
    /\ row.cryptoAddress = tx.to
    /\ row.status = "PENDING"
    /\ row.paymentType = "CRYPTO_TRX"
    /\ row.expiresAt >= at
    /\ row.expectedAmount >= tx.amount - 10
    /\ row.expectedAmount <= tx.amount + 10

\* CryptoMonitor.checkTRXTransactions for one transaction of one payment p
\* that the sweep selected (PENDING, not expired), up to the result of
\* findUnique in handleCryptoPayment
checkTRXTransactions(t, p, txID) ==
    /\ tasks[t].pc = "idle"
    /\ p \in DOMAIN payments
    /\ payments[p].status = "PENDING"
    /\ payments[p].paymentType = "CRYPTO_TRX"
    /\ payments[p].expiresAt >= now
    /\ txID \notin processedTxs
    /\ isValidTRXTransaction(Chain[txID], payments[p])
    /\ LET read == [IdleTask EXCEPT !.kind = "ledger", !.ext = txID,
                                     !.sel = p,
                                     !.amount = Chain[txID].amount] IN
       tasks' = [tasks EXCEPT ![t] =
            IF \E q \in DOMAIN payments : payments[q].cryptoTxHash = txID
            THEN [read EXCEPT !.pc = "lg_ret", !.res = "existing"]
            ELSE [read EXCEPT !.pc = "lg_match"]]
    /\ UNCHANGED <<now, payments, subs, processedTxs>>

\* handleCryptoPayment: getTransaction, then findFirst of handleTRXTransaction
handleCryptoPayment(t) ==
    /\ tasks[t].pc = "lg_match"
    /\ LET tx == Chain[tasks[t].ext]
           found == { p \in DOMAIN payments : MatchesTRX(payments[p], tx, now) } IN
       IF tx.contractRet # "SUCCESS" \/ found = {}
       THEN Finish(t, "throw")
       ELSE \E p \in found :
               tasks' = [tasks EXCEPT ![t].pc = "tx_pay", ![t].pid = p,
                                      ![t].row = payments[p]]
    /\ UNCHANGED <<now, payments, subs, processedTxs>>

\* back in checkTRXTransactions: this.processedTxs.add(tx.txID)
checkTRXTransactions_add(t) ==
    /\ tasks[t].pc = "lg_ret"
    /\ processedTxs' = processedTxs \cup {tasks[t].ext}
    /\ tasks' = [tasks EXCEPT ![t].pc = "done"]
    /\ UNCHANGED <<now, payments, subs>>

\* ------------------------------------------- the cache of the ledger scan
\* clearProcessedCache empties the set only above this size
CacheLimit == 1000

\* the id of the k-th transfer credited since the process started
TxId(k) == "tx" \o ToString(k)

\* checkTRXTransactions, lines 66 to 73, as the cache field sees it: the
\* transfer is not in processedTxs, the awaited handleCryptoPayment(tx.txID)
\* has resolved (its effect on the store is the transaction followed in the
\* ledger-scan specifications), and the id is added. No statement of the
\* scan removes an entry, and no scheduled task calls clearProcessedCache.
checkTRXTransactions_processed(k) ==
    /\ k = Cardinality(processedTxs) + 1
    /\ TxId(k) \notin processedTxs
    /\ processedTxs' = processedTxs \cup {TxId(k)}
    /\ UNCHANGED <<now, payments, subs, tasks>>

\* ---------------------------------- ledger scan, first PaymentService
\* the where clause of findFirst in the first handleCryptoPayment: the
\* amount is compared for equality
MatchesTRXExact(row, tx, at) ==
    /\ row.cryptoAddress = tx.to
    /\ row.expectedAmount = tx.amount
    /\ row.status = "PENDING"
    /\ row.paymentType = "CRYPTO_TRX"
    /\ row.expiresAt >= at

\* CryptoMonitor.checkTRXTransactions up to the call of the first
\* handleCryptoPayment
checkTRXTransactions_call(t, p, txID) ==
    /\ tasks[t].pc = "idle"
    /\ p \in DOMAIN payments
    /\ payments[p].status = "PENDING"
    /\ payments[p].paymentType = "CRYPTO_TRX"
    /\ payments[p].expiresAt >= now
    /\ txID \notin processedTxs
    /\ isValidTRXTransaction(Chain[txID], payments[p])
    /\ tasks' = [tasks EXCEPT ![t] =
                    [IdleTask EXCEPT !.kind = "ledger", !.ext = txID,
                                     !.sel = p,
                                     !.amount = Chain[txID].amount,
                                     !.pc = "lx_match"]]
    /\ UNCHANGED <<now, payments, subs, processedTxs>>

\* first handleCryptoPayment: getTransaction, then findFirst
handleCryptoPayment_findFirst(t) ==
    /\ tasks[t].pc = "lx_match"
    /\ LET tx == Chain[tasks[t].ext]
           found == { p \in DOMAIN payments :
                        MatchesTRXExact(payments[p], tx, now) } IN
       IF tx.contractRet # "SUCCESS" \/ found = {}
       THEN Finish(t, "throw")
       ELSE \E p \in found :
               tasks' = [tasks EXCEPT ![t].pc = "lx_exist", ![t].pid = p,
                                      ![t].row = payments[p]]
    /\ UNCHANGED <<now, payments, subs, processedTxs>>

\* first handleCryptoPayment: findUnique({ where: { cryptoTxHash } })
handleCryptoPayment_findUnique(t) ==
    /\ tasks[t].pc = "lx_exist"
    /\ IF \E q \in DOMAIN payments : payments[q].cryptoTxHash = tasks[t].ext
       THEN Finish(t, "throw")
       ELSE tasks' = [tasks EXCEPT ![t].pc = "tx_pay"]
    /\ UNCHANGED <<now, payments, subs, processedTxs>>

\* ------------------------------------------- poll sweep of CryptoMonitor
\* The run of checkPendingPayments is the record tasks["monitor"]; the
\* checkCryptoPaymentStatus call it awaits runs in the frame tasks["t1"].
Monitor == "monitor"
Frame == "t1"

IdleMonitor ==
    [ pc |-> "idle",
      queue |-> <<>>,        \* pendingPayments, the result of findMany
      i |-> 0,               \* position of the for loop
      log |-> <<>> ]         \* calls issued (payment id), "sleep", "error"

\* the orders in which findMany (no orderBy) can return the set S
Orders(S) ==
    { q \in [1..Cardinality(S) -> S] : \A a \in S : \E k \in DOMAIN q : q[k] = a }

\* checkPendingPayments: prisma.payment.findMany
checkPendingPayments_findMany ==
    /\ tasks[Monitor].pc = "idle"
    /\ \E q \in Orders({ p \in DOMAIN payments : SweepSelects(payments[p], now) }) :
          tasks' = [tasks EXCEPT ![Monitor] =
                        [IdleMonitor EXCEPT !.pc = "loop", !.queue = q, !.i = 1]]
    /\ UNCHANGED <<now, payments, subs, processedTxs>>

\* the head of the for loop: the next payment's check is called, or the loop
\* is left
checkPendingPayments_loop ==
    /\ tasks[Monitor].pc = "loop"
    /\ tasks' = [tasks EXCEPT ![Monitor] =
            IF tasks[Monitor].i > Len(tasks[Monitor].queue)
            THEN [@ EXCEPT !.pc = "end"]
            ELSE [@ EXCEPT !.pc = "call",
                           !.log = Append(@, tasks[Monitor].queue[tasks[Monitor].i])]]
    /\ UNCHANGED <<now, payments, subs, processedTxs>>

\* the callee's first statement, for the payment the loop is at
checkPendingPayments_call ==
    /\ tasks[Monitor].pc = "call"
    /\ checkCryptoPaymentStatus_find(Frame, tasks[Monitor].queue[tasks[Monitor].i])

\* a throw of the awaited call taken out of the loop
AbortsSweep(m) == [m EXCEPT !.pc = "end", !.log = Append(@, "error")]

\* the monitor's step after the awaited call throws: the next iteration
\* without the pause
SkipsToNext(m) == [m EXCEPT !.pc = "loop", !.i = @ + 1, !.log = Append(@, "error")]

\* the awaited checkCryptoPaymentStatus settles: on a result the counters are
\* updated and sleep(500) is awaited; on a throw the catch block logs and
\* the loop goes on
checkPendingPayments_settled ==
    /\ tasks[Monitor].pc = "call"
    /\ tasks[Frame].pc = "done"
    /\ tasks' = [tasks EXCEPT
                    ![Frame] = IdleTask,
                    ![Monitor] = IF tasks[Frame].res = "throw"
                                 THEN SkipsToNext(@)
                                 ELSE [@ EXCEPT !.pc = "sleep"]]
    /\ UNCHANGED <<now, payments, subs, processedTxs>>

\* await this.sleep(500) resolves
sleep ==
    /\ tasks[Monitor].pc = "sleep"
    /\ tasks' = [tasks EXCEPT ![Monitor] =
                    [@ EXCEPT !.pc = "loop", !.i = @ + 1,
                              !.log = Append(@, "sleep")]]
    /\ UNCHANGED <<now, payments, subs, processedTxs>>


\* ------------------------------------- the provider and the repeated sweep
Provider == "provider"

\* the payments for which the provider's getPaymentStatus answers 'finished'
IdleProvider == [ finished |-> {} ]

\* the user's transfer is confirmed at the provider while the Payment is
\* PENDING and not yet expired; from then on the provider reports 'finished'
provider_finished(p) ==
    /\ p \in DOMAIN payments
    /\ p \notin tasks[Provider].finished
    /\ payments[p].status = "PENDING"
    /\ payments[p].cryptoTxHash # None
    /\ payments[p].expiresAt >= now
    /\ tasks' = [tasks EXCEPT ![Provider].finished = @ \cup {p}]
    /\ UNCHANGED <<now, payments, subs, processedTxs>>

\* nowPayments.getPaymentStatus succeeds and answers from the provider's state
getPaymentStatus(t) ==
    /\ tasks[t].pc = "poll_status"
    /\ checkCryptoPaymentStatus_status(t,
          IF tasks[t].pid \in tasks[Provider].finished THEN "finished" ELSE "waiting",
          tasks[t].row.expectedAmount, TRUE)

\* cron.schedule: the next run of checkPendingPayments begins after the last
\* one has ended
checkPendingPayments_schedule ==
    /\ tasks[Monitor].pc = "end"
    /\ tasks' = [tasks EXCEPT ![Monitor] = IdleMonitor]
    /\ UNCHANGED <<now, payments, subs, processedTxs>>

\* ------------------------------------------- expiry of subscriptions (cron)
Sweeper == "sweeper"

IdleSweeper ==
    [ pc |-> "idle",
      queue |-> <<>>,        \* expiredSubscriptions, the result of findMany
      i |-> 0,               \* position of the for loop
      issued |-> {},         \* users for whom banChatMember was called
      banned |-> {} ]        \* users for whom banChatMember succeeded

\* where: { endDate: { lt: new Date() }, isActive: true }
ExpiredActive(row, at) == row.isActive /\ row.endDate < at

\* prisma.subscription.findMany
removeExpiredSubscriptions_findMany ==
    /\ tasks[Sweeper].pc = "idle"
    /\ \E q \in Orders({ i \in DOMAIN subs : ExpiredActive(subs[i], now) }) :
          tasks' = [tasks EXCEPT ![Sweeper] =
                        [IdleSweeper EXCEPT !.pc = "loop", !.queue = q, !.i = 1]]
    /\ UNCHANGED <<now, payments, subs, processedTxs>>

\* the head of the for loop
removeExpiredSubscriptions_loop ==
    /\ tasks[Sweeper].pc = "loop"
    /\ tasks' = [tasks EXCEPT ![Sweeper].pc =
                    IF tasks[Sweeper].i > Len(tasks[Sweeper].queue)
                    THEN "end" ELSE "ban"]
    /\ UNCHANGED <<now, payments, subs, processedTxs>>

\* bot.banChatMember, the first statement of the try block: when it throws,
\* the catch block logs and the loop goes to the next row
banChatMember(ok) ==
    /\ tasks[Sweeper].pc = "ban"
    /\ LET m == tasks[Sweeper]
           user == subs[m.queue[m.i]].userId IN
       tasks' = [tasks EXCEPT ![Sweeper] =
            IF ok
            THEN [m EXCEPT !.pc = "update",
                           !.issued = @ \cup {user}, !.banned = @ \cup {user}]
            ELSE [m EXCEPT !.pc = "loop", !.i = @ + 1,
                           !.issued = @ \cup {user}]]
    /\ UNCHANGED <<now, payments, subs, processedTxs>>

\* prisma.subscription.update({ where: { id }, data: { isActive: false } });
\* the statement waits for a row locked by an open transaction
removeExpiredSubscriptions_update ==
    /\ tasks[Sweeper].pc = "update"
    /\ LET m == tasks[Sweeper] IN
       /\ ~SubLocked(m.queue[m.i], None)
       /\ subs' = [subs EXCEPT ![m.queue[m.i]].isActive = FALSE]
       /\ tasks' = [tasks EXCEPT ![Sweeper] = [m EXCEPT !.pc = "loop", !.i = @ + 1]]
    /\ UNCHANGED <<now, payments, processedTxs>>


\* ------------ expiry of subscriptions, the revision that deactivates first
\* the head of the for loop: the try block begins with the update
removeExpiredSubscriptions_next ==
    /\ tasks[Sweeper].pc = "loop"
    /\ tasks' = [tasks EXCEPT ![Sweeper].pc =
                    IF tasks[Sweeper].i > Len(tasks[Sweeper].queue)
                    THEN "end" ELSE "deactivate"]
    /\ UNCHANGED <<now, payments, subs, processedTxs>>

\* prisma.subscription.update({ where: { id }, data: { isActive: false } })
removeExpiredSubscriptions_deactivate ==
    /\ tasks[Sweeper].pc = "deactivate"
    /\ LET m == tasks[Sweeper] IN
       /\ ~SubLocked(m.queue[m.i], None)
       /\ subs' = [subs EXCEPT ![m.queue[m.i]].isActive = FALSE]
       /\ tasks' = [tasks EXCEPT ![Sweeper].pc = "ban"]
    /\ UNCHANGED <<now, payments, processedTxs>>

\* bot.banChatMember in its own try/catch: a failure is logged
banChatMember_caught(ok) ==
    /\ tasks[Sweeper].pc = "ban"
    /\ LET m == tasks[Sweeper]
           user == subs[m.queue[m.i]].userId IN
       tasks' = [tasks EXCEPT ![Sweeper] =
                    [m EXCEPT !.pc = "message",
                              !.issued = @ \cup {user},
                              !.banned = IF ok THEN @ \cup {user} ELSE @]]
    /\ UNCHANGED <<now, payments, subs, processedTxs>>

\* bot.sendMessage of the expiry text in its own try/catch, then the pause
\* of 100 ms and the next row
sendMessage_expired(ok) ==
    /\ tasks[Sweeper].pc = "message"
    /\ tasks' = [tasks EXCEPT ![Sweeper] = [@ EXCEPT !.pc = "loop", !.i = @ + 1]]
    /\ UNCHANGED <<now, payments, subs, processedTxs>>

\* ----------------------------------------------------- the join-request gate
Gate == "gate"

\* a chat other than the sold channel in which the bot receives join requests
OtherChat == "chat2"

\* a platform user of whom the store has no row
Stranger == "u0"

IdleGate ==
    [ pc |-> "idle",
      user |-> None,         \* chatJoinRequest.from.id
      chat |-> None,         \* chatJoinRequest.chat.id
      found |-> FALSE,       \* user && user.subscriptions.length > 0
      approved |-> FALSE,    \* approveChatJoinRequest succeeded
      declines |-> 0,        \* calls of declineChatJoinRequest issued
      message |-> None ]     \* the text delivered to the user

\* the include of findUnique without the test of the end date
HasFlaggedSubscription(user, chat, at) ==
    /\ user \in Users
    /\ \E i \in DOMAIN subs :
          /\ subs[i].userId = user
          /\ subs[i].channelId = chat
          /\ subs[i].isActive

\* prisma.user.findUnique({ where: { telegramId }, include: { subscriptions:
\* { where: { channelId, isActive: true, endDate: { gte: new Date() } } } } })
\* followed by `user && user.subscriptions.length > 0`
HasActiveSubscription(user, chat, at) ==
    /\ user \in Users
    /\ \E i \in DOMAIN subs :
          /\ subs[i].userId = user
          /\ subs[i].channelId = chat
          /\ subs[i].isActive
          /\ subs[i].endDate >= at

\* bot.on("chat_join_request"): the read of the store, which can throw
chat_join_request(user, chat, ok) ==
    /\ tasks[Gate].pc = "idle"
    /\ tasks' = [tasks EXCEPT ![Gate] =
            LET g == [IdleGate EXCEPT !.user = user, !.chat = chat] IN
            IF ~ok THEN [g EXCEPT !.pc = "catch"]
            ELSE IF HasActiveSubscription(user, chat, now)
                 THEN [g EXCEPT !.pc = "approve", !.found = TRUE]
                 ELSE [g EXCEPT !.pc = "decline"]]
    /\ UNCHANGED <<now, payments, subs, processedTxs>>

\* bot.approveChatJoinRequest(chatId, userId)
approveChatJoinRequest(ok) ==
    /\ tasks[Gate].pc = "approve"
    /\ tasks' = [tasks EXCEPT ![Gate] =
            IF ok THEN [@ EXCEPT !.pc = "welcome", !.approved = TRUE]
            ELSE [@ EXCEPT !.pc = "catch"]]
    /\ UNCHANGED <<now, payments, subs, processedTxs>>

\* bot.sendMessage of the welcome text
sendMessage_welcome(ok) ==
    /\ tasks[Gate].pc = "welcome"
    /\ tasks' = [tasks EXCEPT ![Gate] =
            IF ok THEN [@ EXCEPT !.pc = "done", !.message = "welcome"]
            ELSE [@ EXCEPT !.pc = "catch"]]
    /\ UNCHANGED <<now, payments, subs, processedTxs>>

\* bot.declineChatJoinRequest(chatId, userId) of the else branch
declineChatJoinRequest(ok) ==
    /\ tasks[Gate].pc = "decline"
    /\ tasks' = [tasks EXCEPT ![Gate] =
            [@ EXCEPT !.pc = IF ok THEN "offer" ELSE "catch",
                      !.declines = @ + 1]]
    /\ UNCHANGED <<now, payments, subs, processedTxs>>

\* getOrCreateUser and bot.sendMessage of the plan keyboard
sendMessage_plans(ok) ==
    /\ tasks[Gate].pc = "offer"
    /\ tasks' = [tasks EXCEPT ![Gate] =
            IF ok THEN [@ EXCEPT !.pc = "done", !.message = "plans"]
            ELSE [@ EXCEPT !.pc = "catch"]]
    /\ UNCHANGED <<now, payments, subs, processedTxs>>

\* the catch block: declineChatJoinRequest in a try/catch of its own
declineChatJoinRequest_onError(ok) ==
    /\ tasks[Gate].pc = "catch"
    /\ tasks' = [tasks EXCEPT ![Gate] =
            [@ EXCEPT !.pc = "done", !.declines = @ + 1]]
    /\ UNCHANGED <<now, payments, subs, processedTxs>>

\* ------------------------------------------- notification after the commit
\* the notification moved inside the transaction callback: its failure undoes
\* the update of the payment
handleCryptoPaymentSuccess_inTransaction(t, ok) ==
    /\ tasks[t].pc = "done"
    /\ tasks[t].kind = "poll"
    /\ tasks[t].committed
    /\ tasks[t].notified = None
    /\ tasks' = [tasks EXCEPT ![t].notified = IF ok THEN "sent" ELSE "failed"]
    /\ payments' = IF ok THEN payments
                   ELSE [payments EXCEPT ![tasks[t].pid] = tasks[t].row]
    /\ UNCHANGED <<now, subs, processedTxs>>

\* paymentHandlers.handleCryptoPaymentSuccess(payment.userId), called by
\* checkCryptoPaymentStatus after prisma.$transaction has resolved: the
\* invite link and the message are inside one try/catch that only logs
handleCryptoPaymentSuccess(t, ok) ==
    /\ tasks[t].pc = "done"
    /\ tasks[t].kind = "poll"
    /\ tasks[t].committed
    /\ tasks[t].notified = None
    /\ tasks' = [tasks EXCEPT ![t].notified = IF ok THEN "sent" ELSE "failed"]
    /\ UNCHANGED <<now, payments, subs, processedTxs>>

\* the service call of the bot handler has settled and the handler has not
\* answered yet
Returned(t) ==
    /\ tasks[t].pc = "done"
    /\ tasks[t].kind \in {"stars", "poll"}
    /\ tasks[t].notice = None
    /\ tasks[t].kind = "poll" /\ tasks[t].committed => tasks[t].notified # None

\* the service call threw: control enters the handler's catch block
handler_rejected(t) ==
    /\ Returned(t)
    /\ tasks[t].res = "throw"
    /\ tasks' = [tasks EXCEPT ![t].notice = "caught"]
    /\ UNCHANGED <<now, payments, subs, processedTxs>>

\* createInviteLink() of the bot handler, on its success branch; it rethrows
\* the error of bot.createChatInviteLink
createInviteLink(t, ok) ==
    /\ Returned(t)
    /\ tasks[t].committed
    /\ tasks' = [tasks EXCEPT ![t].notice = IF ok THEN "link" ELSE "caught"]
    /\ UNCHANGED <<now, payments, subs, processedTxs>>

\* bot.sendMessage / bot.editMessageText with the success text
sendMessage_success(t, ok) ==
    /\ tasks[t].notice = "link"
    /\ tasks' = [tasks EXCEPT ![t].notice = IF ok THEN "success" ELSE "caught"]
    /\ UNCHANGED <<now, payments, subs, processedTxs>>

\* the other branches of /check and check_payment: the payment was not
\* completed by this call, the user is sent the status text
sendMessage_status(t) ==
    /\ Returned(t)
    /\ tasks[t].kind = "poll"
    /\ ~tasks[t].committed
    /\ tasks[t].res # "throw"
    /\ tasks' = [tasks EXCEPT ![t].notice = "status"]
    /\ UNCHANGED <<now, payments, subs, processedTxs>>

\* the catch block of the bot handler sends the error text
handler_catch(t) ==
    /\ tasks[t].notice = "caught"
    /\ tasks' = [tasks EXCEPT ![t].notice = "error"]
    /\ UNCHANGED <<now, payments, subs, processedTxs>>

\* ------------------------------------------------------- payment intents
\* the id the store gives to the row created by task t
NewId(t) == "n_" \o t

PlanTypes == {"DAY", "WEEK", "MONTH"}

\* createTelegramStarsPayment: prisma.payment.create
createTelegramStarsPayment_create(t, userId, planType) ==
    /\ tasks[t].pc = "idle"
    /\ NewId(t) \notin DOMAIN payments
    /\ payments' = payments @@
                        (NewId(t) :> StarsPayment(NewId(t), userId, planType, now))
    /\ tasks' = [tasks EXCEPT ![t] =
                    [IdleTask EXCEPT !.kind = "stars_intent", !.pid = NewId(t),
                                     !.pc = "si_invoice"]]
    /\ UNCHANGED <<now, subs, processedTxs>>

\* createTelegramStarsPayment: bot.sendInvoice resolves or rejects; the
\* rejection leaves the function
createTelegramStarsPayment_sendInvoice(t, ok) ==
    /\ tasks[t].pc = "si_invoice"
    /\ Finish(t, IF ok THEN "ok" ELSE "throw")
    /\ UNCHANGED <<now, payments, subs, processedTxs>>

\* PaymentService.createCryptoPayment (hosted invoice, polled):
\* nowPayments.createPayment resolves or throws
createCryptoPayment_createPayment(t, userId, planType, ok) ==
    /\ tasks[t].pc = "idle"
    /\ NewId(t) \notin DOMAIN payments
    /\ tasks' = [tasks EXCEPT ![t] =
                    [IdleTask EXCEPT !.kind = "polled_intent",
                                     !.row = NewPayment(userId, planType,
                                                        "CRYPTO_USDT", now, 2),
                                     !.pc = IF ok THEN "pi_create" ELSE "done",
                                     !.res = IF ok THEN None ELSE "throw"]]
    /\ UNCHANGED <<now, payments, subs, processedTxs>>

\* PaymentService.createCryptoPayment: prisma.payment.create
createCryptoPayment_create(t) ==
    /\ tasks[t].pc = "pi_create"
    /\ payments' = payments @@
                        (NewId(t) :> PolledPayment(NewId(t), tasks[t].row.userId,
                                                   tasks[t].row.planType, now))
    /\ tasks' = [tasks EXCEPT ![t].pc = "done", ![t].pid = NewId(t),
                              ![t].res = "ok"]
    /\ UNCHANGED <<now, subs, processedTxs>>

\* the row of NowPaymentsIntegration.createCryptoPayment before the provider
\* has answered
UnansweredPayment(userId, planType, created) ==
    [ NewPayment(userId, planType, "CRYPTO_USDT", created, 2)
        EXCEPT !.expectedAmount = 500 ]

\* NowPaymentsIntegration.createCryptoPayment: prisma.payment.create
NowPaymentsIntegration_createCryptoPayment_create(t, userId, planType) ==
    /\ tasks[t].pc = "idle"
    /\ NewId(t) \notin DOMAIN payments
    /\ payments' = payments @@
                        (NewId(t) :> UnansweredPayment(userId, planType, now))
    /\ tasks' = [tasks EXCEPT ![t] =
                    [IdleTask EXCEPT !.kind = "webhook_intent", !.pid = NewId(t),
                                     !.pc = "wi_provider"]]
    /\ UNCHANGED <<now, subs, processedTxs>>

\* NowPaymentsIntegration.createCryptoPayment: nowPayments.createPayment
\* resolves or throws; the catch block rethrows
NowPaymentsIntegration_createCryptoPayment_createPayment(t, ok) ==
    /\ tasks[t].pc = "wi_provider"
    /\ IF ok
       THEN tasks' = [tasks EXCEPT ![t].pc = "wi_update"]
       ELSE Finish(t, "throw")
    /\ UNCHANGED <<now, payments, subs, processedTxs>>

\* NowPaymentsIntegration.createCryptoPayment: prisma.payment.update
NowPaymentsIntegration_createCryptoPayment_update(t) ==
    /\ tasks[t].pc = "wi_update"
    /\ payments' = [payments EXCEPT
                        ![tasks[t].pid].cryptoAddress = "addr_" \o tasks[t].pid,
                        ![tasks[t].pid].invoicePayload = "np_" \o tasks[t].pid]
    /\ Finish(t, "ok")
    /\ UNCHANGED <<now, subs, processedTxs>>

\* ------------------------------------------------------------ initial rows
\* a subscription granted before the run by payment p0, ending at tick 1
OldPayment(kind) ==
    IF kind = "webhook"
    THEN [ WebhookPayment("p0", "u1", "DAY", -47)
            EXCEPT !.status = "COMPLETED", !.cryptoTxHash = "np_p0" ]
    ELSE [ StarsPayment("p0", "u1", "DAY", -47)
            EXCEPT !.status = "COMPLETED", !.telegramPaymentChargeId = "charge_p0" ]

OldSubscription == SubscriptionRow("u1", "DAY", -47, 1, "p0")

InitStore(p1, p2, hasSub, kind) ==
    /\ now = 0
    /\ payments = IF hasSub
                  THEN ("p0" :> OldPayment(kind)) @@ ("p1" :> p1) @@ ("p2" :> p2)
                  ELSE ("p1" :> p1) @@ ("p2" :> p2)
    /\ subs = IF hasSub THEN <<OldSubscription>> ELSE <<>>
    /\ tasks = [t \in Tasks |-> IdleTask]
    /\ processedTxs = {}

PaymentIds == {"p0", "p1", "p2"}

Transaction(t) ==
    \/ TxUpdatePayment(t)
    \/ createSubscription_findFirst(t)
    \/ createSubscription_write(t)
    \/ TxCommit(t)

\* the transaction whose createSubscription calls unbanChatMember uncaught
TransactionUnban(t) ==
    \/ TxUpdatePayment(t)
    \/ \E ok \in BOOLEAN : unbanChatMember(t, ok)
    \/ tasks[t].unban # None /\ createSubscription_findFirst(t)
    \/ createSubscription_write(t)
    \/ TxCommit(t)

\* the transaction whose createSubscription catches unbanChatMember's error
TransactionCaught(t) ==
    \/ TxUpdatePayment(t)
    \/ \E ok \in BOOLEAN : unbanChatMember_caught(t, ok)
    \/ tasks[t].unban # None /\ createSubscription_findFirst(t)
    \/ createSubscription_write(t)
    \/ TxCommit(t)

\* ----------------------------- revision with stars and the polled invoice
Init ==
    \E hasSub \in BOOLEAN, u \in Users :
    \E p1 \in {StarsPayment("p1", "u1", "DAY", 0), PolledPayment("p1", "u1", "DAY", 0)},
       p2 \in {StarsPayment("p2", u, "WEEK", 0), PolledPayment("p2", u, "WEEK", 0)} :
        InitStore(p1, p2, hasSub, "stars")

Next ==
    \/ \E t \in Tasks, p \in PaymentIds : handleTelegramStarsSuccess(t, p)
    \/ \E t \in Tasks, p \in PaymentIds : checkCryptoPaymentStatus_find(t, p)
    \/ \E t \in Tasks, status \in EventStatuses,
            pay_amount \in PollAmounts, ok \in BOOLEAN :
            checkCryptoPaymentStatus_status(t, status, pay_amount, ok)
    \/ \E t \in Tasks : checkCryptoPaymentStatus_fail(t)
    \/ \E t \in Tasks : TransactionCaught(t)
    \/ cleanupExpiredPayments
    \/ Tick

Spec == Init /\ [][Next]_vars

\* ------------------------------ revision with stars and the ledger scan
InitLedger ==
    \E hasSub \in BOOLEAN, u \in Users :
    \E p2 \in {LedgerPayment("p2", u, "DAY", 0), StarsPayment("p2", u, "WEEK", 0)} :
        InitStore(LedgerPayment("p1", "u1", "DAY", -1), p2, hasSub, "stars")

NextLedger ==
    \/ \E t \in Tasks, p \in PaymentIds : handleTelegramStarsSuccess(t, p)
    \/ \E t \in Tasks, p \in PaymentIds, txID \in RecentTxs :
            checkTRXTransactions(t, p, txID)
    \/ \E t \in Tasks : handleCryptoPayment(t)
    \/ \E t \in Tasks : checkTRXTransactions_add(t)
    \/ \E t \in Tasks : TransactionUnban(t)
    \/ cleanupExpiredPayments
    \/ Tick

SpecLedger == InitLedger /\ [][NextLedger]_vars

\* ------------------- the first PaymentService under the same ledger scan
InitLedgerExact ==
    \E hasSub \in BOOLEAN, u \in Users :
        InitStore(LedgerPayment("p1", "u1", "DAY", 0),
                  LedgerPayment("p2", u, "WEEK", 0), hasSub, "stars")

NextLedgerExact ==
    \/ \E t \in Tasks, p \in PaymentIds, txID \in ToleranceTxs :
            checkTRXTransactions_call(t, p, txID)
    \/ \E t \in Tasks : handleCryptoPayment_findFirst(t)
    \/ \E t \in Tasks : handleCryptoPayment_findUnique(t)
    \/ \E t \in Tasks : checkTRXTransactions_add(t)
    \/ \E t \in Tasks : Transaction(t)
    \/ cleanupExpiredPayments
    \/ Tick

SpecLedgerExact == InitLedgerExact /\ [][NextLedgerExact]_vars

\* ------------------------------------ hosted invoice confirmed by webhook
OrderIds == PaymentIds \cup {"p9"}

InitWebhook ==
    \E hasSub \in BOOLEAN, u \in Users :
        InitStore(WebhookPayment("p1", "u1", "DAY", 0),
                  WebhookPayment("p2", u, "WEEK", 0), hasSub, "webhook")

NextWebhook ==
    \/ \E t \in Tasks, order_id \in OrderIds,
            payment_status \in EventStatuses, pay_amount \in WebhookAmounts :
            \E signature \in {Hmac(order_id, payment_status, pay_amount), "forged"} :
                handleWebhook(t, signature, order_id, payment_status, pay_amount)
    \/ \E t \in Tasks : Transaction(t)
    \/ cleanupExpiredPayments
    \/ Tick

SpecWebhook == InitWebhook /\ [][NextWebhook]_vars

\* ------------------------------------------- creation of payment intents
InitIntent ==
    InitStore(StarsPayment("p1", "u1", "DAY", 0),
              PolledPayment("p2", "u2", "WEEK", 0), FALSE, "stars")

NextIntent ==
    \/ \E t \in Tasks, userId \in Users, planType \in PlanTypes :
            createTelegramStarsPayment_create(t, userId, planType)
    \/ \E t \in Tasks, ok \in BOOLEAN :
            createTelegramStarsPayment_sendInvoice(t, ok)
    \/ \E t \in Tasks, userId \in Users, planType \in PlanTypes, ok \in BOOLEAN :
            createCryptoPayment_createPayment(t, userId, planType, ok)
    \/ \E t \in Tasks : createCryptoPayment_create(t)
    \/ \E t \in Tasks, userId \in Users, planType \in PlanTypes :
            NowPaymentsIntegration_createCryptoPayment_create(t, userId, planType)
    \/ \E t \in Tasks, ok \in BOOLEAN :
            NowPaymentsIntegration_createCryptoPayment_createPayment(t, ok)
    \/ \E t \in Tasks : NowPaymentsIntegration_createCryptoPayment_update(t)
    \/ cleanupExpiredPayments
    \/ Tick

SpecIntent == InitIntent /\ [][NextIntent]_vars

\* ------------------------------------ one run of the monitor's poll sweep
InitSweep ==
    /\ now = 0
    /\ payments = ("p1" :> PolledPayment("p1", "u1", "DAY", 0)) @@
                  ("p2" :> PolledPayment("p2", "u2", "WEEK", 0))
    /\ subs = <<>>
    /\ tasks = [t \in Tasks |-> IdleTask] @@ (Monitor :> IdleMonitor)
    /\ processedTxs = {}

NextSweep ==
    \/ checkPendingPayments_findMany
    \/ checkPendingPayments_loop
    \/ checkPendingPayments_call
    \/ checkPendingPayments_settled
    \/ sleep
    \/ \E t \in Tasks, status \in EventStatuses,
            pay_amount \in PollAmounts, ok \in BOOLEAN :
            checkCryptoPaymentStatus_status(t, status, pay_amount, ok)
    \/ \E t \in Tasks : checkCryptoPaymentStatus_fail(t)
    \/ \E t \in Tasks : TransactionCaught(t)
    \/ cleanupExpiredPayments
    \/ Tick

SpecSweep == InitSweep /\ [][NextSweep]_vars

\* --------------------- the bot handlers that answer the user after a check
NotifyStatuses == {"finished", "failed", "waiting"}

InitNotify ==
    InitStore(StarsPayment("p1", "u1", "DAY", 0),
              PolledPayment("p2", "u2", "WEEK", 0), FALSE, "stars")

NextNotify ==
    \/ \E t \in Tasks, p \in PaymentIds : handleTelegramStarsSuccess(t, p)
    \/ \E t \in Tasks, p \in PaymentIds : checkCryptoPaymentStatus_find(t, p)
    \/ \E t \in Tasks, status \in NotifyStatuses, ok \in BOOLEAN :
            checkCryptoPaymentStatus_status(t, status, 21000, ok)
    \/ \E t \in Tasks : checkCryptoPaymentStatus_fail(t)
    \/ \E t \in Tasks : TransactionCaught(t)
    \/ \E t \in Tasks, ok \in BOOLEAN : handleCryptoPaymentSuccess(t, ok)
    \/ \E t \in Tasks : handler_rejected(t)
    \/ \E t \in Tasks, ok \in BOOLEAN : createInviteLink(t, ok)
    \/ \E t \in Tasks, ok \in BOOLEAN : sendMessage_success(t, ok)
    \/ \E t \in Tasks : sendMessage_status(t)
    \/ \E t \in Tasks : handler_catch(t)

SpecNotify == InitNotify /\ [][NextNotify]_vars

\* ------------------- the revision whose expiry sweep bans before it updates
InitExpiry ==
    /\ now = 0
    /\ payments = ("p0" :> OldPayment("stars")) @@
                  ("p1" :> StarsPayment("p1", "u1", "DAY", 0)) @@
                  ("p2" :> [ StarsPayment("p2", "u2", "DAY", -50)
                               EXCEPT !.status = "COMPLETED",
                                      !.telegramPaymentChargeId = "charge_p2" ])
    /\ subs = <<OldSubscription, SubscriptionRow("u2", "DAY", -50, -2, "p2")>>
    /\ tasks = [t \in Tasks |-> IdleTask] @@ (Sweeper :> IdleSweeper)
    /\ processedTxs = {}

NextExpiry ==
    \/ removeExpiredSubscriptions_findMany
    \/ removeExpiredSubscriptions_loop
    \/ \E ok \in BOOLEAN : banChatMember(ok)
    \/ removeExpiredSubscriptions_update
    \/ \E p \in PaymentIds : handleTelegramStarsSuccess(Frame, p)
    \/ TransactionCaught(Frame)
    \/ Tick

SpecExpiry == InitExpiry /\ [][NextExpiry]_vars

\* --------------------------- the cache over one long life of the process
InitCache ==
    InitStore(LedgerPayment("p1", "u1", "DAY", 0),
              LedgerPayment("p2", "u2", "DAY", 0), FALSE, "stars")

NextCache == \E k \in 1..MaxTxs : checkTRXTransactions_processed(k)

SpecCache == InitCache /\ [][NextCache]_vars

\* ----------- a user left with two active rows by two concurrent first grants
\* the second row: granted at the same instant as OldSubscription, for the
\* same plan (equal endDate) or for a week
TwinPayment(planType) ==
    [ StarsPayment("p3", "u1", planType, -47)
        EXCEPT !.status = "COMPLETED", !.telegramPaymentChargeId = "charge_p3" ]

TwinSubscription(planType) ==
    SubscriptionRow("u1", planType, -47, -47 + getPlanDuration(planType), "p3")

InitTie ==
    \E planType \in {"DAY", "WEEK"}, first \in BOOLEAN :
        /\ now = 0
        /\ payments = ("p0" :> OldPayment("stars")) @@
                      ("p3" :> TwinPayment(planType)) @@
                      ("p1" :> StarsPayment("p1", "u1", "WEEK", 0)) @@
                      ("p2" :> StarsPayment("p2", "u1", "MONTH", 0))
        /\ subs = IF first
                  THEN <<OldSubscription, TwinSubscription(planType)>>
                  ELSE <<TwinSubscription(planType), OldSubscription>>
        /\ tasks = [t \in Tasks |-> IdleTask]
        /\ processedTxs = {}

NextTie ==
    \/ \E t \in Tasks, p \in PaymentIds : handleTelegramStarsSuccess(t, p)
    \/ \E t \in Tasks : TransactionCaught(t)
    \/ cleanupExpiredPayments
    \/ Tick

SpecTie == InitTie /\ [][NextTie]_vars

\* ------------- the revision whose expiry sweep deactivates before it bans
\* u1's subscription lapsed at -1 and is still marked active; u1 has opened
\* a new stars payment; u2's subscription runs until tick 2
LapsedPayment ==
    [ StarsPayment("p0", "u1", "DAY", -49)
        EXCEPT !.status = "COMPLETED", !.telegramPaymentChargeId = "charge_p0" ]

LapsedSubscription == SubscriptionRow("u1", "DAY", -49, -1, "p0")

InitLapsed ==
    /\ now = 0
    /\ payments = ("p0" :> LapsedPayment) @@
                  ("p1" :> StarsPayment("p1", "u1", "WEEK", 0)) @@
                  ("p2" :> [ StarsPayment("p2", "u2", "DAY", -46)
                               EXCEPT !.status = "COMPLETED",
                                      !.telegramPaymentChargeId = "charge_p2" ])
    /\ subs = <<LapsedSubscription, SubscriptionRow("u2", "DAY", -46, 2, "p2")>>
    /\ tasks = [t \in Tasks |-> IdleTask] @@ (Sweeper :> IdleSweeper)
    /\ processedTxs = {}

NextLapsed ==
    \/ removeExpiredSubscriptions_findMany
    \/ removeExpiredSubscriptions_next
    \/ removeExpiredSubscriptions_deactivate
    \/ \E ok \in BOOLEAN : banChatMember_caught(ok)
    \/ \E ok \in BOOLEAN : sendMessage_expired(ok)
    \/ \E p \in PaymentIds : handleTelegramStarsSuccess(Frame, p)
    \/ TransactionCaught(Frame)
    \/ cleanupExpiredPayments
    \/ Tick

SpecLapsed == InitLapsed /\ [][NextLapsed]_vars

\* ------------------------------- the stars purchase from the pre-checkout
InitStars ==
    /\ now = 0
    /\ payments = ("p1" :> StarsPayment("p1", "u1", "DAY", 0)) @@
                  ("p2" :> StarsPayment("p2", "u2", "WEEK", 0))
    /\ subs = <<>>
    /\ tasks = [t \in Tasks |-> IdleTask] @@ (Checkout :> IdleCheckout)
    /\ processedTxs = {}

NextStars ==
    \/ \E p \in PaymentIds : pre_checkout_query(p)
    \/ \E t \in Tasks, p \in PaymentIds : successful_payment(t, p)
    \/ \E t \in Tasks : TransactionCaught(t)
    \/ cleanupExpiredPayments
    \/ Tick

SpecStars == InitStars /\ [][NextStars]_vars

\* -------------- the cron jobs of the polled revision, each run ever again
InitCron ==
    /\ now = 0
    /\ payments = ("p1" :> PolledPayment("p1", "u1", "DAY", 0)) @@
                  ("p2" :> PolledPayment("p2", "u2", "WEEK", 0))
    /\ subs = <<>>
    /\ tasks = [t \in Tasks |-> IdleTask] @@ (Monitor :> IdleMonitor)
                                          @@ (Provider :> IdleProvider)
    /\ processedTxs = {}

\* a step of the job that runs checkPendingPayments every two minutes
MonitorJob ==
    \/ checkPendingPayments_findMany
    \/ checkPendingPayments_loop
    \/ checkPendingPayments_call
    \/ getPaymentStatus(Frame)
    \/ TransactionCaught(Frame)
    \/ checkPendingPayments_settled
    \/ sleep
    \/ checkPendingPayments_schedule

NextCron ==
    \/ \E p \in PaymentIds : provider_finished(p)
    \/ MonitorJob
    \/ cleanupExpiredPayments
    \/ Tick

\* node-cron fires both jobs for ever; nothing is assumed about how the
\* clock advances between two runs
SpecCron ==
    /\ InitCron
    /\ [][NextCron]_vars
    /\ WF_vars(MonitorJob)
    /\ WF_vars(cleanupExpiredPayments)

\* --------------- join requests while a payment completes and rows expire
InitGate ==
    /\ now = 0
    /\ payments = ("p0" :> LapsedPayment) @@
                  ("p1" :> StarsPayment("p1", "u1", "WEEK", 0)) @@
                  ("p2" :> [ StarsPayment("p2", "u2", "DAY", -46)
                               EXCEPT !.status = "COMPLETED",
                                      !.telegramPaymentChargeId = "charge_p2" ])
    /\ subs = <<LapsedSubscription, SubscriptionRow("u2", "DAY", -46, 2, "p2")>>
    /\ tasks = [t \in Tasks |-> IdleTask] @@ (Sweeper :> IdleSweeper)
                                          @@ (Gate :> IdleGate)
    /\ processedTxs = {}

NextGate ==
    \/ \E user \in Users \cup {Stranger}, chat \in {CHANNEL_ID, OtherChat},
          ok \in BOOLEAN : chat_join_request(user, chat, ok)
    \/ \E ok \in BOOLEAN : approveChatJoinRequest(ok)
    \/ \E ok \in BOOLEAN : sendMessage_welcome(ok)
    \/ \E ok \in BOOLEAN : declineChatJoinRequest(ok)
    \/ \E ok \in BOOLEAN : sendMessage_plans(ok)
    \/ \E ok \in BOOLEAN : declineChatJoinRequest_onError(ok)
    \/ removeExpiredSubscriptions_findMany
    \/ removeExpiredSubscriptions_next
    \/ removeExpiredSubscriptions_deactivate
    \/ \E ok \in BOOLEAN : banChatMember_caught(ok)
    \/ \E ok \in BOOLEAN : sendMessage_expired(ok)
    \/ \E p \in PaymentIds : handleTelegramStarsSuccess(Frame, p)
    \/ TransactionCaught(Frame)
    \/ Tick

SpecGate == InitGate /\ [][NextGate]_vars


\* ================================================================= claims

\* C1: the same hosted-invoice webhook (valid signature, same order_id,
\* payment_status finished) delivered twice gives one Subscription
\* creation/extension: the second delivery, which reads the payment as
\* COMPLETED after the first one committed, commits nothing.
C1_WebhookReplayIsNoop ==
    \A t1, t2 \in Tasks :
        ( /\ t1 # t2
          /\ tasks[t1].kind = "webhook" /\ tasks[t2].kind = "webhook"
          /\ tasks[t1].pid = tasks[t2].pid
          /\ tasks[t1].committed
          /\ tasks[t2].row.status = "COMPLETED" )
        => ~tasks[t2].committed

\* C2: of two status checks of the same payment that the provider reports
\* as finished, at most one commits a completion (one PENDING->COMPLETED
\* transition, one Subscription creation/extension).
C2_OneCompletionPerPoll ==
    \A t1, t2 \in Tasks :
        ( /\ tasks[t1].kind = "poll" /\ tasks[t2].kind = "poll"
          /\ tasks[t1].pid = tasks[t2].pid
          /\ tasks[t1].committed /\ tasks[t2].committed ) => t1 = t2

\* C3: a transaction hash is recorded on at most one Payment and the
\* handleCryptoPayment invocations carrying it commit at most one
\* Subscription creation/extension in total.
C3_HashCreditedOnce ==
    /\ \A h \in DOMAIN Chain :
          Cardinality({ p \in DOMAIN payments : payments[p].cryptoTxHash = h }) <= 1
    /\ \A t1, t2 \in Tasks :
          ( /\ tasks[t1].kind = "ledger" /\ tasks[t2].kind = "ledger"
            /\ tasks[t1].ext = tasks[t2].ext
            /\ tasks[t1].committed /\ tasks[t2].committed ) => t1 = t2

\* C4: a handleTelegramStarsSuccess call that finds its payment already
\* COMPLETED is a no-op: the step leaves every Payment (status and charge id
\* included) and every Subscription unchanged, the call ends by throwing and
\* does nothing afterwards.
C4_StarsReplayIsNoop ==
    [][ \A t \in Tasks :
          /\ ( /\ tasks[t].pc = "idle"
               /\ tasks'[t].kind = "stars"
               /\ tasks'[t].row.status = "COMPLETED" )
             => ( /\ payments' = payments
                  /\ subs' = subs
                  /\ tasks'[t].pc = "done"
                  /\ tasks'[t].res = "throw"
                  /\ ~tasks'[t].committed )
          /\ tasks[t].pc = "done" => tasks'[t] = tasks[t] ]_vars

\* C4 witness: a second stars call, for a payload whose payment a first call
\* committed, has read the payment as COMPLETED and ended.
C4_Witness ==
    \E t1, t2 \in Tasks :
        /\ t1 # t2
        /\ tasks[t1].kind = "stars" /\ tasks[t1].committed
        /\ tasks[t2].kind = "stars" /\ tasks[t2].pid = tasks[t1].pid
        /\ tasks[t2].row.status = "COMPLETED"
        /\ tasks[t2].row.telegramPaymentChargeId = tasks[t2].ext
        /\ tasks[t2].pc = "done"

\* C5: a Payment that is COMPLETED, FAILED or EXPIRED never changes status
\* again; the only status changes start from PENDING.
C5_StatusTerminal ==
    [][ \A p \in DOMAIN payments :
          payments[p].status # "PENDING"
            => payments'[p].status = payments[p].status ]_vars

\* C6: once the expiry sweep has marked a Payment EXPIRED it is excluded
\* from completion: a webhook or poll that reads it as EXPIRED commits no
\* completion, and the Payment stays EXPIRED.
C6_ExpiredIsExcluded ==
    \A t \in Tasks :
        (tasks[t].kind \in {"webhook", "poll"} /\ tasks[t].row.status = "EXPIRED")
            => (~tasks[t].committed /\ payments[tasks[t].pid].status = "EXPIRED")

\* C7 (as stated): when a completion extends the active Subscription it read
\* as ending at T, the row ends at T + D, starts at T, and no row is added.
C7_ExtensionLawAsStated ==
    [][ \A t \in Tasks :
          (tasks[t].pc = "tx_commit" /\ tasks'[t].committed /\ tasks[t].exId # 0)
            => ( /\ Len(subs') = Len(subs)
                 /\ subs'[tasks[t].exId].endDate =
                        tasks[t].exEnd + getPlanDuration(payments[tasks[t].pid].planType)
                 /\ subs'[tasks[t].exId].startDate = tasks[t].exEnd ) ]_vars

\* C7 (amended): when a completion extends the active Subscription it read
\* as ending at T (T >= now at the read), that row ends at T + D, its stored
\* startDate is unchanged, and no row is added.
C7_ExtensionLaw ==
    [][ \A t \in Tasks :
          /\ (tasks[t].pc = "tx_find" /\ tasks'[t].pc = "tx_write" /\ tasks'[t].exId # 0)
             => ( /\ tasks'[t].exEnd = subs[tasks'[t].exId].endDate
                  /\ tasks'[t].exEnd >= now
                  /\ subs[tasks'[t].exId].userId = payments[tasks[t].pid].userId )
          /\ (tasks[t].pc = "tx_commit" /\ tasks'[t].committed /\ tasks[t].exId # 0)
             => ( /\ Len(subs') = Len(subs)
                  /\ subs'[tasks[t].exId].endDate =
                        tasks[t].exEnd + getPlanDuration(payments[tasks[t].pid].planType)
                  /\ subs'[tasks[t].exId].startDate = subs[tasks[t].exId].startDate ) ]_vars

\* C7 witness: a completion has committed an extension of an existing row.
C7_Witness ==
    \E t \in Tasks :
        /\ tasks[t].committed
        /\ tasks[t].exId # 0
        /\ subs[tasks[t].exId].endDate > tasks[t].exEnd

\* C8: the fresh branch is taken exactly when the user has no active
\* Subscription at the read, and a completion that takes it adds exactly one
\* row with startDate = now (the time of the create), endDate = now + D,
\* isActive = true and paymentId = the Payment's id, changing no other row.
C8_FreshGrantLaw ==
    [][ \A t \in Tasks :
          /\ (tasks[t].pc = "tx_find" /\ tasks'[t].pc = "tx_write")
             => ( (tasks'[t].exId = 0)
                    <=> (\A i \in DOMAIN subs :
                            \/ subs[i].userId # payments[tasks[t].pid].userId
                            \/ ~subs[i].isActive
                            \/ subs[i].endDate < now) )
          /\ (tasks[t].pc = "tx_write" /\ tasks'[t].pc = "tx_commit" /\ tasks[t].exId = 0)
             => tasks'[t].at = now
          /\ (tasks[t].pc = "tx_commit" /\ tasks'[t].committed /\ tasks[t].exId = 0)
             => ( /\ Len(subs') = Len(subs) + 1
                  /\ \A i \in DOMAIN subs : subs'[i] = subs[i]
                  /\ subs'[Len(subs')].userId = payments[tasks[t].pid].userId
                  /\ subs'[Len(subs')].channelId = CHANNEL_ID
                  /\ subs'[Len(subs')].startDate = tasks[t].at
                  /\ subs'[Len(subs')].endDate =
                        tasks[t].at + getPlanDuration(payments[tasks[t].pid].planType)
                  /\ subs'[Len(subs')].isActive
                  /\ subs'[Len(subs')].paymentId = tasks[t].pid
                  /\ payments'[tasks[t].pid].status = "COMPLETED" ) ]_vars

\* C8 witness: a completion that found no active Subscription has committed
\* a new row that references its Payment.
C8_Witness ==
    \E t \in Tasks :
        /\ tasks[t].committed
        /\ tasks[t].exId = 0
        /\ \E i \in DOMAIN subs : subs[i].paymentId = tasks[t].pid

\* C9: two distinct Payments completed by concurrent transactions that both
\* read the same active Subscription ending at T leave that row ending at
\* T + D1 + D2, as some serial order would.
C9_NoLostExtension ==
    \A t1, t2 \in Tasks :
        ( /\ t1 # t2
          /\ tasks[t1].committed /\ tasks[t2].committed
          /\ tasks[t1].pid # tasks[t2].pid
          /\ tasks[t1].exId # 0
          /\ tasks[t1].exId = tasks[t2].exId
          /\ tasks[t1].exEnd = tasks[t2].exEnd )
        => subs[tasks[t1].exId].endDate =
              tasks[t1].exEnd + getPlanDuration(tasks[t1].row.planType)
                              + getPlanDuration(tasks[t2].row.planType)

\* C10: every user has at most one currently active Subscription row
\* (isActive = true and endDate >= now) for the channel.
C10_SingleActive ==
    \A u \in Users :
        Cardinality({ i \in DOMAIN subs :
                        /\ subs[i].userId = u
                        /\ subs[i].isActive
                        /\ subs[i].endDate >= now }) <= 1

\* C11: tolerance matching on the ledger scan.  The lookup made for a
\* successful transaction finds a Payment while a PENDING, unexpired Payment
\* of that address created no later than the transaction expects an amount
\* within 0.009 of the transaction's; and no call ever holds a Payment whose
\* expected amount is 0.02 or more away from the transaction's, so that such
\* a transaction completes nothing.
C11_ToleranceMatching ==
    [][ \A t \in Tasks :
          /\ ( /\ tasks[t].pc \in {"lg_match", "lx_match"}
               /\ Chain[tasks[t].ext].contractRet = "SUCCESS"
               /\ \E p \in DOMAIN payments :
                     /\ payments[p].status = "PENDING"
                     /\ payments[p].paymentType = "CRYPTO_TRX"
                     /\ payments[p].expiresAt >= now
                     /\ payments[p].cryptoAddress = Chain[tasks[t].ext].to
                     /\ payments[p].createdAt <= Chain[tasks[t].ext].block_timestamp
                     /\ Abs(Chain[tasks[t].ext].amount - payments[p].expectedAmount) <= 9 )
             => tasks'[t].pc # "done"
          /\ ( tasks'[t].kind = "ledger" /\ tasks'[t].pid # None )
             => Abs(tasks'[t].amount - tasks'[t].row.expectedAmount) < 20 ]_vars

\* C12: no Payment is COMPLETED with a transaction whose block timestamp is
\* strictly earlier than the Payment's createdAt, also when several PENDING
\* Payments share the receiving address and the expected amount.
C12_Causality ==
    \A p \in DOMAIN payments :
        ( /\ payments[p].status = "COMPLETED"
          /\ payments[p].cryptoTxHash \in DOMAIN Chain )
        => Chain[payments[p].cryptoTxHash].block_timestamp >= payments[p].createdAt

\* C13: a hosted-invoice event (webhook or poll) completes a Payment only if
\* the amount it reports is within 0.01 of the Payment's expectedAmount.
C13_AmountWithinTolerance ==
    \A t \in Tasks :
        (tasks[t].kind \in {"webhook", "poll"} /\ tasks[t].committed)
            => Abs(tasks[t].amount - tasks[t].row.expectedAmount) <= 10

\* C14: completion is all-or-nothing.  A completion transaction in which a
\* step failed (the unbanChatMember call of createSubscription included)
\* commits nothing, and a Payment is COMPLETED if and only if a completion
\* transaction for it has committed its Subscription creation/extension.
C14_AllOrNothing ==
    /\ \A t \in Tasks : tasks[t].unban = "failed" => ~tasks[t].committed
    /\ \A p \in DOMAIN payments :
          payments[p].status = "COMPLETED"
            <=> ( \/ p = "p0"
                  \/ \E t \in Tasks : tasks[t].committed /\ tasks[t].pid = p )

\* C15: no orphan intents.  When the external call of an intent creation
\* has failed and the operation has returned its error, the store holds no
\* PENDING Payment row of that intent.
C15_NoOrphanIntent ==
    \A t \in Tasks :
        ( /\ tasks[t].kind \in {"stars_intent", "polled_intent", "webhook_intent"}
          /\ tasks[t].pc = "done"
          /\ tasks[t].res = "throw" )
        => ~( /\ NewId(t) \in DOMAIN payments
              /\ payments[NewId(t)].status = "PENDING" )

\* C16: a webhook whose signature is not the HMAC of its payload is rejected
\* with no state change: the call returns false at once without having read
\* a Payment, the step changes no Payment and no Subscription row, and the
\* call does nothing afterwards, whatever the payload says.
C16_ForgedWebhookRejected ==
    [][ \A t \in Tasks :
          /\ ( /\ tasks[t].pc = "idle"
               /\ tasks'[t].kind = "webhook"
               /\ tasks'[t].sig = "forged" )
             => ( /\ payments' = payments
                  /\ subs' = subs
                  /\ tasks'[t].pc = "done"
                  /\ tasks'[t].res = "false"
                  /\ tasks'[t].pid = None
                  /\ tasks'[t].row = NoPayment
                  /\ ~tasks'[t].committed )
          /\ tasks[t].sig = "forged" => tasks'[t] = tasks[t] ]_vars

\* C16 witness: a forged webhook that reports 'finished' for a Payment that
\* is PENDING has been handled and rejected.
C16_Witness ==
    \E t \in Tasks :
        /\ tasks[t].kind = "webhook"
        /\ tasks[t].sig = "forged"
        /\ tasks[t].status = "finished"
        /\ tasks[t].sel \in DOMAIN payments
        /\ payments[tasks[t].sel].status = "PENDING"
        /\ tasks[t].pc = "done"
        /\ tasks[t].res = "false"

\* C17: the webhook endpoint answers with a success code when the event was
\* processed, with a client-error code when the signature is bad, and with
\* a server-error code when the completion transaction it started failed
\* on a store error.
C17_ResponseCodes ==
    \A t \in Tasks :
        (tasks[t].kind = "webhook" /\ tasks[t].pc = "done")
        => ( /\ tasks[t].committed
                => setupNowPaymentsWebhook(tasks[t].res) = 200
             /\ tasks[t].sig = "forged"
                => setupNowPaymentsWebhook(tasks[t].res) = 400
             /\ (tasks[t].pid # None /\ ~tasks[t].committed)
                => setupNowPaymentsWebhook(tasks[t].res) = 500 )

\* C18: when a poll that read its Payment as PENDING gets a terminal-failure
\* provider status (failed, refunded or expired), it goes on to the update
\* that marks that Payment FAILED; the update changes the status of that
\* Payment only, and no step of the poll creates, extends or otherwise
\* modifies a Subscription row.
C18_TerminalFailureMarksFailed ==
    [][ \A t \in Tasks :
          /\ ( /\ tasks[t].pc = "poll_status"
               /\ tasks'[t].status \in {"failed", "refunded", "expired"}
               /\ tasks[t].row.status = "PENDING" )
             => ( /\ tasks'[t].pc = "poll_fail"
                  /\ payments' = payments
                  /\ subs' = subs )
          /\ ( tasks[t].pc = "poll_fail" /\ tasks'[t] # tasks[t] )
             => ( /\ payments' = [payments EXCEPT ![tasks[t].pid].status = "FAILED"]
                  /\ subs' = subs
                  /\ tasks'[t].pc = "done"
                  /\ ~tasks'[t].committed )
          /\ ( tasks[t].pc = "done" /\ tasks[t].kind = "poll" )
             => tasks'[t] = tasks[t] ]_vars

\* C18 witness: a poll that read a PENDING Payment and got 'refunded' has
\* ended, and the Payment is FAILED.
C18_Witness ==
    \E t \in Tasks :
        /\ tasks[t].kind = "poll"
        /\ tasks[t].row.status = "PENDING"
        /\ tasks[t].status = "refunded"
        /\ tasks[t].pc = "done"
        /\ payments[tasks[t].pid].status = "FAILED"

C20_ProviderErrorLeavesPending ==
    [][ \A t \in Tasks :
          /\ ( /\ tasks[t].pc = "poll_status"
               /\ tasks'[t].pc # "poll_status"
               /\ tasks'[t].status = None )
             => ( /\ tasks'[t].pc = "done"
                  /\ tasks'[t].res = "throw"
                  /\ payments' = payments
                  /\ subs' = subs
                  /\ \A p \in DOMAIN payments :
                        SweepSelects(payments[p], now)
                            => SweepSelects(payments'[p], now') )
          /\ ( tasks[t].kind = "poll" /\ tasks[t].pc = "done" )
             => tasks'[t] = tasks[t] ]_vars

\* C20 witness: the poll of a PENDING, unexpired Payment has ended on a
\* provider error and the sweep still selects the Payment.
C20_Witness ==
    \E t \in Tasks :
        /\ tasks[t].kind = "poll"
        /\ tasks[t].row.status = "PENDING"
        /\ tasks[t].status = None
        /\ tasks[t].pc = "done"
        /\ tasks[t].res = "throw"
        /\ payments[tasks[t].pid] = tasks[t].row
        /\ SweepSelects(payments[tasks[t].pid], now)

\* C21: within one checkPendingPayments run the checks issued are, in order,
\* the Payments that findMany returned, each at most once; the run is never
\* stuck before the end of the loop; and when it has ended every selected
\* Payment has been checked exactly once, also when earlier checks threw.
C21_SweepChecksEachOnce ==
    LET m == tasks[Monitor]
        calls == SelectSeq(m.log, LAMBDA e : e \notin {"sleep", "error"})
    IN  /\ \A j, k \in DOMAIN m.queue : m.queue[j] = m.queue[k] => j = k
        /\ Len(calls) <= Len(m.queue)
        /\ \A k \in DOMAIN calls : calls[k] = m.queue[k]
        /\ m.pc = "end" => calls = m.queue
        /\ m.pc \notin {"idle", "end"}
              => ENABLED ( \/ checkPendingPayments_loop
                           \/ checkPendingPayments_call
                           \/ checkPendingPayments_settled
                           \/ sleep
                           \/ \E status \in EventStatuses, pay_amount \in PollAmounts,
                                 ok \in BOOLEAN :
                                 checkCryptoPaymentStatus_status(Frame, status, pay_amount, ok)
                           \/ checkCryptoPaymentStatus_fail(Frame)
                           \/ TransactionCaught(Frame) )

\* C21 witness: a run over two Payments has ended although the check of the
\* first one threw.
C21_Witness ==
    /\ tasks[Monitor].pc = "end"
    /\ Len(tasks[Monitor].queue) = 2
    /\ Len(tasks[Monitor].log) >= 3
    /\ tasks[Monitor].log[1] = tasks[Monitor].queue[1]
    /\ tasks[Monitor].log[2] = "error"
    /\ tasks[Monitor].log[3] = tasks[Monitor].queue[2]

\* C22: between any two consecutive provider status calls of one
\* checkPendingPayments run the pause sleep(500) is executed, also when the
\* earlier call ended in an error.
C22_PauseBetweenCalls ==
    LET log == tasks[Monitor].log
        IsCall(e) == e \notin {"sleep", "error"}
    IN  \A j, k \in DOMAIN log :
            (j < k /\ IsCall(log[j]) /\ IsCall(log[k]))
                => \E n \in DOMAIN log : j < n /\ n < k /\ log[n] = "sleep"

\* C23: a failure of the notification that follows the commit (the invite link
\* or the message) leaves the store as the transaction wrote it: the step in
\* which the notification fails changes no Payment and no Subscription.
C23_NotificationNeverRollsBack ==
    [][ \A t \in Tasks :
          /\ tasks[t].committed
          /\ \/ tasks[t].notified = None /\ tasks'[t].notified = "failed"
             \/ tasks[t].notice # "caught" /\ tasks'[t].notice = "caught"
          => /\ payments' = payments
             /\ subs' = subs ]_vars

C23_Witness ==
    \E t \in Tasks :
        /\ tasks[t].committed
        /\ tasks[t].notified = "failed"
        /\ payments[tasks[t].pid].status = "COMPLETED"
        /\ \E i \in DOMAIN subs : subs[i].paymentId = tasks[t].pid

\* C24: when one run of removeExpiredSubscriptions has ended, every row it
\* selected (isActive = true and endDate < now at its start) is inactive and
\* banChatMember was called for the row's user, whatever calls failed.
C24_ExpirySweepDeactivatesAll ==
    LET m == tasks[Sweeper] IN
    m.pc = "end" =>
        \A k \in DOMAIN m.queue :
            /\ ~subs[m.queue[k]].isActive
            /\ subs[m.queue[k]].userId \in m.issued

\* C25: a run of cleanupExpiredPayments at time now sets to EXPIRED exactly the
\* Payments that are PENDING with expiresAt < now, changes no other Payment and
\* no Subscription, and a second run right after it changes nothing.
C25_CleanupExact ==
    [][ tasks' = tasks /\ now' = now /\ payments' # payments =>
          /\ DOMAIN payments' = DOMAIN payments
          /\ \A p \in DOMAIN payments :
                payments'[p] =
                    IF payments[p].status = "PENDING" /\ payments[p].expiresAt < now
                    THEN [payments[p] EXCEPT !.status = "EXPIRED"]
                    ELSE payments[p]
          /\ subs' = subs
          /\ \A p \in DOMAIN payments' :
                ~(payments'[p].status = "PENDING" /\ payments'[p].expiresAt < now') ]_vars

C25_Witness ==
    /\ \E p \in DOMAIN payments :
          payments[p].status = "EXPIRED" /\ payments[p].expiresAt < now
    /\ \E p \in DOMAIN payments : payments[p].status = "COMPLETED"
    /\ subs # <<>>

\* C26: in every reachable state of the running bot the number of entries of
\* processedTxs is at most the size above which the cache is cleared.
C26_CacheBounded == Cardinality(processedTxs) <= CacheLimit

\* C27: a Payment has been completed by a transfer; another successful
\* transfer to the same address for the same amount is looked up while no
\* PENDING, unexpired Payment of that address and amount exists. The lookup
\* ends the handler with an error: no Payment and no Subscription changes,
\* and the handler never commits.
C27_UnmatchedTransferChangesNothing ==
    [][ \A t \in Tasks :
          ( /\ tasks[t].pc \in {"lg_match", "lx_match"}
            /\ tasks'[t] # tasks[t]
            /\ \E q \in DOMAIN payments :
                  /\ payments[q].status = "COMPLETED"
                  /\ payments[q].cryptoTxHash \in DOMAIN Chain
                  /\ payments[q].cryptoTxHash # tasks[t].ext
            /\ ~ \E p \in DOMAIN payments :
                  /\ payments[p].status = "PENDING"
                  /\ payments[p].paymentType = "CRYPTO_TRX"
                  /\ payments[p].cryptoAddress = Chain[tasks[t].ext].to
                  /\ payments[p].expiresAt >= now
                  /\ Abs(payments[p].expectedAmount - Chain[tasks[t].ext].amount) <= 10 )
          => /\ tasks'[t].pc = "done"
             /\ tasks'[t].res = "throw"
             /\ ~tasks'[t].committed
             /\ payments' = payments
             /\ subs' = subs ]_vars

C27_Witness ==
    \E t \in Tasks, q \in DOMAIN payments :
        /\ tasks[t].kind = "ledger"
        /\ tasks[t].pc = "done"
        /\ tasks[t].res = "throw"
        /\ tasks[t].pid = None
        /\ payments[q].status = "COMPLETED"
        /\ payments[q].cryptoTxHash \in DOMAIN Chain
        /\ payments[q].cryptoTxHash # tasks[t].ext
        /\ Abs(payments[q].expectedAmount - Chain[tasks[t].ext].amount) <= 10
        /\ \E i \in DOMAIN subs : subs[i].paymentId = q

\* C28: a completion that extends an existing Subscription changes only that
\* row's endDate and planType, planType becoming the plan of the new Payment;
\* the row's paymentId, userId, channelId and isActive (and startDate) stay,
\* and every other Subscription row is unchanged.
C28_ExtensionFrame ==
    [][ \A t \in Tasks :
          (tasks[t].pc = "tx_commit" /\ tasks'[t].committed /\ tasks[t].exId # 0)
          => LET i == tasks[t].exId IN
             /\ DOMAIN subs' = DOMAIN subs
             /\ subs'[i] = [subs[i] EXCEPT !.endDate = subs'[i].endDate,
                                           !.planType = subs'[i].planType]
             /\ subs'[i].planType = payments[tasks[t].pid].planType
             /\ subs'[i].paymentId = subs[i].paymentId
             /\ subs'[i].userId = subs[i].userId
             /\ subs'[i].channelId = subs[i].channelId
             /\ subs'[i].isActive = subs[i].isActive
             /\ \A j \in DOMAIN subs : j # i => subs'[j] = subs[j] ]_vars

C28_Witness ==
    \E t \in Tasks :
        /\ tasks[t].committed
        /\ tasks[t].exId # 0
        /\ subs[tasks[t].exId].planType = tasks[t].row.planType
        /\ subs[tasks[t].exId].paymentId # tasks[t].pid
        /\ subs[tasks[t].exId].endDate > tasks[t].exEnd
        /\ Len(subs) = 2

\* C29: when several Subscription rows of the user are active (isActive and
\* endDate >= now) at the read of a completion, the row it takes is one whose
\* endDate is the latest among them; the commit sets that row's endDate to
\* the latest endDate read plus D and leaves every other row unchanged.
C29_TieBreakLatest ==
    [][ \A t \in Tasks :
          LET user == tasks[t].row.userId
              active == { i \in DOMAIN subs :
                            /\ subs[i].userId = user
                            /\ subs[i].channelId = CHANNEL_ID
                            /\ subs[i].isActive
                            /\ subs[i].endDate >= now } IN
          /\ ( /\ tasks[t].pc = "tx_find" /\ tasks'[t].pc = "tx_write"
               /\ Cardinality(active) >= 2 )
             => /\ tasks'[t].exId \in active
                /\ \A j \in active : subs[j].endDate <= subs[tasks'[t].exId].endDate
                /\ tasks'[t].exEnd = subs[tasks'[t].exId].endDate
          /\ ( /\ tasks[t].pc = "tx_commit" /\ tasks'[t].committed
               /\ tasks[t].exId # 0 )
             => /\ subs'[tasks[t].exId].endDate =
                        tasks[t].exEnd + getPlanDuration(tasks[t].row.planType)
                /\ \A j \in DOMAIN subs : j # tasks[t].exId => subs'[j] = subs[j]
                /\ DOMAIN subs' = DOMAIN subs ]_vars

\* C29 witness: two rows of the user with different endDates were active at
\* the read, and the one that ended later has been extended.
C29_Witness ==
    \E t \in Tasks, j \in DOMAIN subs :
        /\ tasks[t].committed
        /\ tasks[t].exId # 0
        /\ j # tasks[t].exId
        /\ subs[j].userId = tasks[t].row.userId
        /\ subs[j].isActive
        /\ subs[j].endDate >= now
        /\ subs[j].endDate < tasks[t].exEnd
        /\ subs[tasks[t].exId].endDate >= tasks[t].exEnd + getPlanDuration(tasks[t].row.planType)

\* C30: once the completion transaction of a bot handler has committed, the
\* handler does not send the user its error text.
C30_NoErrorAfterCommit ==
    \A t \in Tasks : tasks[t].committed => tasks[t].notice # "error"

\* C31: a grant of channel access made for a completion (unbanChatMember
\* succeeded) is made only once the completion transaction has committed.
C31_GrantAfterCommit ==
    \A t \in Tasks : tasks[t].unban = "ok" => tasks[t].committed

\* C32: when the expiry sweep bans a user, that user holds no Subscription
\* that is active at that moment (isActive = true and endDate >= now).
C32_NoBanWhileActive ==
    [][ \A u \in Users :
          ( u \in tasks'[Sweeper].banned /\ u \notin tasks[Sweeper].banned )
          => ~ \E i \in DOMAIN subs :
                 /\ subs[i].userId = u
                 /\ subs[i].channelId = CHANNEL_ID
                 /\ subs[i].isActive
                 /\ subs[i].endDate >= now ]_vars

\* C33: once the pre-checkout of a stars payment was approved and the handler
\* of its successful_payment has run to its end, the Payment is COMPLETED and
\* a Subscription has been granted to its user.
C33_NoChargeWithoutGrant ==
    \A t \in Tasks :
        ( /\ tasks[t].kind = "stars"
          /\ tasks[t].pc = "done"
          /\ tasks[t].pid \in tasks[Checkout].approved )
        => /\ payments[tasks[t].pid].status = "COMPLETED"
           /\ \E i \in DOMAIN subs : subs[i].userId = payments[tasks[t].pid].userId

\* C34: on the ledger-scan path the Payment that a transaction completes is
\* the Payment against which the monitor validated that transaction: same id
\* and same user.
C34_SamePaymentCompleted ==
    \A t \in Tasks :
        (tasks[t].kind = "ledger" /\ tasks[t].committed)
        => /\ tasks[t].pid = tasks[t].sel
           /\ payments[tasks[t].pid].userId = payments[tasks[t].sel].userId

\* C35: a Payment that the provider reports 'finished' from a moment when it
\* was PENDING with expiresAt >= now is eventually COMPLETED, the poll sweep
\* and the expiry sweep running for ever and the provider calls succeeding.
C35_FinishedEventuallyCompleted ==
    \A p \in {"p1", "p2"} :
        (p \in tasks[Provider].finished) ~> (payments[p].status = "COMPLETED")

\* C36: no Payment becomes COMPLETED at a time later than its expiresAt.
C36_NoCompletionAfterExpiry ==
    [][ \A p \in DOMAIN payments :
          ( payments[p].status # "COMPLETED" /\ payments'[p].status = "COMPLETED" )
          => now <= payments[p].expiresAt ]_vars

\* C37: in every step each Subscription row keeps its startDate, its endDate
\* does not decrease, and a row that is inactive stays inactive; no row
\* disappears.
C37_RowsMonotone ==
    [][ /\ Len(subs') >= Len(subs)
        /\ \A i \in DOMAIN subs :
              /\ subs'[i].endDate >= subs[i].endDate
              /\ subs'[i].startDate = subs[i].startDate
              /\ ~subs[i].isActive => ~subs'[i].isActive ]_vars

====
